---- MODULE Spec2Model ----
(***************************************************************************)
(* Model of firmware/src/main.cpp: the RP2040 load-cell / tachometer       *)
(* firmware with its line protocol, the EEPROM-backed calibration record   *)
(* and the tachometer interrupt handler.                                   *)
(*                                                                         *)
(* Fixed-width integers are little-endian sequences of 16-bit limbs        *)
(* (uint32_t: two limbs, uint64_t: four), so that every value keeps the    *)
(* width it has in the program.  A float is carried as its IEEE-754 bit    *)
(* pattern (a uint32_t).  A character is a one-element string; the         *)
(* control characters are "<NUL>", "<TAB>", "<CR>" and "<LF>".             *)
(***************************************************************************)
EXTENDS Integers, Sequences, FiniteSets, TLC

\* ------------------------------------------------------------------------
\* Fixed-width arithmetic
\* ------------------------------------------------------------------------
Limb == 2^16

U32(n) == <<n % Limb, n \div Limb>>
U64(n) == <<n % Limb, n \div Limb, 0, 0>>
Zero32 == <<0, 0>>
Zero64 == <<0, 0, 0, 0>>
Max32 == <<Limb - 1, Limb - 1>>
Max64 == <<Limb - 1, Limb - 1, Limb - 1, Limb - 1>>

RECURSIVE AddC(_, _, _)
AddC(a, b, c) ==
  IF a = <<>> THEN <<>>
  ELSE LET s == Head(a) + Head(b) + c
       IN  <<s % Limb>> \o AddC(Tail(a), Tail(b), s \div Limb)

\* a + b modulo 2^(16 * Len(a))
Add(a, b) == AddC(a, b, 0)

RECURSIVE SubB(_, _, _)
SubB(a, b, br) ==
  IF a = <<>> THEN <<>>
  ELSE LET d == Head(a) - Head(b) - br
       IN  IF d < 0 THEN <<d + Limb>> \o SubB(Tail(a), Tail(b), 1)
                    ELSE <<d>> \o SubB(Tail(a), Tail(b), 0)

\* a - b modulo 2^(16 * Len(a)): unsigned wrap-around subtraction
Sub(a, b) == SubB(a, b, 0)

\* unsigned a > b, compared from the most significant limb
RECURSIVE Gt(_, _)
Gt(a, b) ==
  IF a = <<>> THEN FALSE
  ELSE LET n == Len(a)
       IN  IF a[n] # b[n] THEN a[n] > b[n]
           ELSE Gt(SubSeq(a, 1, n - 1), SubSeq(b, 1, n - 1))

IsZero(a) == \A i \in 1..Len(a) : a[i] = 0

\* (uint64_t)x of a uint32_t
ZExt64(a) == a \o <<0, 0>>

\* two's complement negation at the width of a
Neg(a) == Sub([i \in 1..Len(a) |-> 0], a)

\* a * 10 + d at the width of a, with the carry out of the top limb
RECURSIVE MulAddC(_, _)
MulAddC(a, c) ==
  IF a = <<>> THEN <<c>>
  ELSE LET s == Head(a) * 10 + c
       IN  <<s % Limb>> \o MulAddC(Tail(a), s \div Limb)

\* the exclusive or of the low n bits of a and b
RECURSIVE XorN(_, _, _)
XorN(a, b, n) ==
  IF n = 0 THEN 0
  ELSE XorN(a, b, n - 1)
         + (((a \div 2^(n - 1)) + (b \div 2^(n - 1))) % 2) * 2^(n - 1)

Xor16(a, b) == XorN(a, b, 16)

\* ------------------------------------------------------------------------
\* Characters and C strings
\* ------------------------------------------------------------------------
NUL == "<NUL>"
TAB == "<TAB>"
CR  == "<CR>"
LF  == "<LF>"
SP  == " "

Digits == <<"0", "1", "2", "3", "4", "5", "6", "7", "8", "9">>
LowerCase == <<"a", "b", "c", "d", "e", "f", "g", "h", "i", "j", "k", "l", "m",
               "n", "o", "p", "q", "r", "s", "t", "u", "v", "w", "x", "y", "z">>
UpperCase == <<"A", "B", "C", "D", "E", "F", "G", "H", "I", "J", "K", "L", "M",
               "N", "O", "P", "Q", "R", "S", "T", "U", "V", "W", "X", "Y", "Z">>

IsDigit(c) == \E i \in 1..10 : Digits[i] = c
DigitVal(c) == (CHOOSE i \in 1..10 : Digits[i] = c) - 1

\* the bytes of a char array up to its first '\0' (what strlen and the
\* string functions see)
CStr(buf) ==
  LET nul == {i \in 1..Len(buf) : buf[i] = NUL}
  IN  IF nul = {} THEN buf
      ELSE SubSeq(buf, 1, (CHOOSE i \in nul : \A j \in nul : i <= j) - 1)

\* s without its leading members of set
DropWhile(s, set) ==
  LET keep == {i \in 1..Len(s) : s[i] \notin set}
  IN  IF keep = {} THEN <<>>
      ELSE SubSeq(s, CHOOSE i \in keep : \A j \in keep : i <= j, Len(s))

\* s up to its first member of set
TakeUntil(s, set) ==
  LET stop == {i \in 1..Len(s) : s[i] \in set}
  IN  IF stop = {} THEN s
      ELSE SubSeq(s, 1, (CHOOSE i \in stop : \A j \in stop : i <= j) - 1)

\* s without its trailing members of set
DropTrailing(s, set) ==
  LET keep == {i \in 1..Len(s) : s[i] \notin set}
  IN  IF keep = {} THEN <<>>
      ELSE SubSeq(s, 1, CHOOSE i \in keep : \A j \in keep : j <= i)

\* strtok(s, delims) on a fresh string: skip leading delimiters, cut the
\* token at the next delimiter and keep what follows it for the next call.
\* found = FALSE is the NULL return.
strtok(s, delims) ==
  LET t    == DropWhile(s, delims)
      tok  == TakeUntil(t, delims)
      rest == SubSeq(t, Len(tok) + 2, Len(t))
  IN  [found |-> t # <<>>, tok |-> tok, rest |-> rest]

toupper(c) ==
  IF \E i \in 1..26 : LowerCase[i] = c
  THEN UpperCase[CHOOSE i \in 1..26 : LowerCase[i] = c]
  ELSE c

\* streqi(a, b): equal lengths and equal characters after upper-casing
streqi(a, b) ==
  /\ Len(a) = Len(b)
  /\ \A i \in 1..Len(a) : toupper(a[i]) = toupper(b[i])

Str_PING     == <<"P", "I", "N", "G">>
Str_INFO     == <<"I", "N", "F", "O">>
Str_LOADQ    == <<"L", "O", "A", "D", "?">>
Str_TARE     == <<"T", "A", "R", "E">>
Str_SPEEDQ   == <<"S", "P", "E", "E", "D", "?">>
Str_SETTIME  == <<"S", "E", "T", "T", "I", "M", "E">>
Str_SETCAL   == <<"S", "E", "T", "C", "A", "L">>
Str_CALQ     == <<"C", "A", "L", "?">>
Str_RESETCAL == <<"R", "E", "S", "E", "T", "C", "A", "L">>
Str_SETPPR   == <<"S", "E", "T", "P", "P", "R">>
Str_PPRQ     == <<"P", "P", "R", "?">>

\* ------------------------------------------------------------------------
\* Number parsing
\* ------------------------------------------------------------------------
CSpace == {SP, TAB, CR, LF}

\* the digits of s accumulated at the width of acc; ovf: the value left
\* the width
RECURSIVE AccDigits(_, _, _)
AccDigits(s, acc, ovf) ==
  IF s = <<>> \/ ~IsDigit(Head(s)) THEN [val |-> acc, ovf |-> ovf]
  ELSE CHOOSE r \in {AccDigits(Tail(s), SubSeq(m, 1, Len(m) - 1),
                                 ovf \/ m[Len(m)] # 0)
                       : m \in {MulAddC(acc, DigitVal(Head(s)))}} : TRUE

\* strtoull(tok, nullptr, 10) / strtoul(tok, nullptr, 10): white space, an
\* optional sign, then digits; 0 when no digit follows; the maximum on
\* overflow; a leading '-' negates the result in the unsigned type.
StrToU(tok, zero, max) ==
  LET t   == DropWhile(tok, CSpace)
      neg == t # <<>> /\ Head(t) = "-"
      u   == IF t # <<>> /\ Head(t) \in {"+", "-"} THEN Tail(t) ELSE t
      r   == AccDigits(u, zero, FALSE)
  IN  IF r.ovf THEN max
      ELSE IF neg THEN Neg(r.val) ELSE r.val

strtoull(tok) == StrToU(tok, Zero64, Max64)
strtoul(tok)  == StrToU(tok, Zero32, Max32)

LongMax == <<Limb - 1, (Limb \div 2) - 1>>
LongMin == <<0, Limb \div 2>>

\* atol(tok) = strtol(tok, nullptr, 10) with a 32-bit long: the magnitude
\* is clamped to LONG_MAX / LONG_MIN.
atol(tok) ==
  LET t   == DropWhile(tok, CSpace)
      neg == t # <<>> /\ Head(t) = "-"
      u   == IF t # <<>> /\ Head(t) \in {"+", "-"} THEN Tail(t) ELSE t
      r   == AccDigits(u, Zero32, FALSE)
  IN  IF neg
      THEN (IF r.ovf \/ Gt(r.val, LongMin) THEN LongMin ELSE Neg(r.val))
      ELSE (IF r.ovf \/ Gt(r.val, LongMax) THEN LongMax ELSE r.val)

\* The decimal literals the model feeds to atof, each with the IEEE-754
\* single-precision bit pattern of (float)atof(literal).
FloatLiterals ==
  << [lit |-> <<"0", ".", "0", "0", "2">>, bits |-> <<4719, 15107>>],
     [lit |-> <<"0", ".", "5">>,           bits |-> <<0, 16128>>],
     [lit |-> <<"1", ".", "5">>,           bits |-> <<0, 16320>>],
     [lit |-> <<"2">>,                     bits |-> <<0, 16384>>] >>

\* the decimal number s starts with: digits, optionally a point and more
\* digits (a point with no digit after it adds nothing to the value)
NumPrefix(s) ==
  LET ip == TakeUntil(s, {c \in {s[i] : i \in 1..Len(s)} : ~IsDigit(c)})
      r  == SubSeq(s, Len(ip) + 1, Len(s))
      fp == IF r # <<>> /\ Head(r) = "."
            THEN TakeUntil(Tail(r), {c \in {r[i] : i \in 1..Len(r)} : ~IsDigit(c)})
            ELSE <<>>
  IN  IF fp # <<>> THEN ip \o <<".">> \o fp ELSE ip

\* (float)atof(tok): 0.0 when tok does not start with a number
atof(tok) ==
  LET p == NumPrefix(DropWhile(tok, CSpace))
  IN  IF \E i \in 1..Len(FloatLiterals) : FloatLiterals[i].lit = p
      THEN FloatLiterals[CHOOSE i \in 1..Len(FloatLiterals) : FloatLiterals[i].lit = p].bits
      ELSE Zero32

\* ------------------------------------------------------------------------
\* Calibration record and CRC-32
\* ------------------------------------------------------------------------
CAL_RECORD_SIZE == 20             \* sizeof(CalRecord)
CAL_MAGIC   == <<19505, 17217>>   \* 0x43414C31
CAL_VERSION == <<0, 1>>           \* 0x00010000
CRC_POLY    == <<33568, 60856>>   \* 0xEDB88320
DEF_SLOPE   == <<4719, 15107>>    \* 0.0020f = 0x3B03126F
DEF_TARE    == Zero32

\* one step of the bit loop: crc = (crc >> 1) ^ (POLY & -(crc & 1))
CrcShift(crc) ==
  LET sh == <<(crc[1] \div 2) + (crc[2] % 2) * (Limb \div 2), crc[2] \div 2>>
  IN  IF crc[1] % 2 = 1
      THEN <<Xor16(sh[1], CRC_POLY[1]), Xor16(sh[2], CRC_POLY[2])>>
      ELSE sh

\* n steps of the bit loop (c ranges over the one value of crc, so that
\* each step is evaluated once)
RECURSIVE CrcBits(_, _)
CrcBits(crc, n) ==
  IF n = 0 THEN crc
  ELSE CHOOSE r \in {CrcBits(CrcShift(c), n - 1) : c \in {crc}} : TRUE

crc32_update(crc, data) == CrcBits(<<Xor16(crc[1], data), crc[2]>>, 8)

RECURSIVE CrcFold(_, _)
CrcFold(crc, data) ==
  IF data = <<>> THEN crc
  ELSE CHOOSE r \in {CrcFold(crc32_update(c, Head(data)), Tail(data)) : c \in {crc}} : TRUE

crc32_span(data) ==
  CHOOSE r \in {<<Limb - 1 - c[1], Limb - 1 - c[2]>> : c \in {CrcFold(Max32, data)}} : TRUE

\* the bytes of a word with the high byte of each half first
RECURSIVE WordBytes_HighFirst(_)
WordBytes_HighFirst(w) ==
  IF w = <<>> THEN <<>>
  ELSE <<Head(w) \div 256, Head(w) % 256>> \o WordBytes_HighFirst(Tail(w))

\* the bytes of a word in memory (little-endian) and back
RECURSIVE WordBytes(_)
WordBytes(w) ==
  IF w = <<>> THEN <<>>
  ELSE <<Head(w) % 256, Head(w) \div 256>> \o WordBytes(Tail(w))

Word32At(bytes, off) ==
  <<bytes[off + 1] + 256 * bytes[off + 2], bytes[off + 3] + 256 * bytes[off + 4]>>

\* struct CalRecord as it lies in memory: magic, version, slope, tare, crc
CalRecord(magic, version, slope, tare, crc) ==
  WordBytes(magic) \o WordBytes(version) \o WordBytes(slope)
    \o WordBytes(tare) \o WordBytes(crc)

RecMagic(rec)   == Word32At(rec, 0)
RecVersion(rec) == Word32At(rec, 4)
RecSlope(rec)   == Word32At(rec, 8)
RecTare(rec)    == Word32At(rec, 12)
RecCrc(rec)     == Word32At(rec, 16)
RecBody(rec)    == SubSeq(rec, 1, CAL_RECORD_SIZE - 4)

\* a record with the CRC of its first 16 bytes
MkRecord(magic, version, slope, tare) ==
  LET body == WordBytes(magic) \o WordBytes(version) \o WordBytes(slope)
                \o WordBytes(tare)
  IN  CHOOSE r \in {body \o WordBytes(crc) : crc \in {crc32_span(body)}} : TRUE

\* ------------------------------------------------------------------------
\* Program constants and the bounds of the model
\* ------------------------------------------------------------------------
LINEBUF_SIZE == 128
HX711_READ_TIMEOUT_MS == 200
GLITCH_US == 100

\* tachometer edges, idle clock advances and power cycles per behaviour
MaxEdges == 3
CmdEdges == 1
MaxBoots == 1
MaxTicks == 3
\* the length of the unterminated run of the overflow scenario
OverflowRun == 200

\* ------------------------------------------------------------------------
\* State
\* ------------------------------------------------------------------------
VARIABLES
  pc,                \* position of the main context
  irq,               \* TRUE while interrupts are enabled
  attached,          \* TRUE once attachInterrupt has installed tach_isr
  loc,               \* locals of the function(s) in progress
  rx,                \* bytes received by Serial and not yet read
  linebuf,           \* linebuf[0 .. idx-1]; idx is its length
  tx,                \* the response lines written to Serial
  g_per_count, tare_offset,
  eeprom,            \* the committed bytes of the record's EEPROM slot
  PULSES_PER_REV, epoch_base_ms,
  tach_pulses_total, last_edge_us, last_period_us,
  micros, millis,    \* the free-running 32-bit clocks
  hx_ready_in,       \* ms until the HX711 has a sample ready
  hx_plan,           \* the delays the HX711 may take to have a sample ready
  script,            \* what the host is still going to send
  edges_left, ticks_left, boots_left,
  line_raw,          \* history: the non-terminator bytes since the last newline
  line_tx0,          \* history: Len(tx) when the current line began
  pre,               \* history: the settings when handle_line was entered
  boot,              \* history: how this boot and the one before it went,
                     \* what was last saved and whether it was damaged since
  tach_pairs,        \* history: the (pulses, period) pairs that have held
                     \* between executions of tach_isr
  wall               \* history: the ms elapsed since power-on, not wrapped
                     \* (up), and the last SETTIME: its value (v) and when
                     \* it was executed (at)

ctlV   == <<pc, irq, loc>>
ioV    == <<rx, linebuf, tx>>
calV   == <<g_per_count, tare_offset, eeprom>>
cfgV   == <<PULSES_PER_REV, epoch_base_ms>>
tachV  == <<tach_pulses_total, last_edge_us, last_period_us, micros>>
timeV  == <<millis, hx_ready_in>>
envV   == <<script, edges_left, ticks_left, boots_left, attached, hx_plan>>
ghostV == <<line_raw, line_tx0, pre, boot, tach_pairs, wall>>
vars   == <<ctlV, ioV, calV, cfgV, tachV, timeV, envV, ghostV>>

Loc0 ==
  [ret |-> "", ret2 |-> "", ok |-> FALSE, cmd |-> <<>>, args |-> <<>>,
   raw |-> Zero32, slope |-> Zero32, tare |-> Zero32, t0 |-> Zero32,
   pulses |-> Zero32, period |-> Zero32, rpm |-> Zero32, ppr |-> Zero32,
   base |-> Zero64, v |-> Zero64, ts |-> Zero64]

Resp(code, vals) == [code |-> code, vals |-> vals]

Settings == <<epoch_base_ms, g_per_count, tare_offset, eeprom, PULSES_PER_REV>>

\* ------------------------------------------------------------------------
\* Calibration store
\* ------------------------------------------------------------------------
\* saveCalibrationToEEPROM with the crc field left unset
saveCalibration_NoCrc(slope, tare) ==
  CalRecord(CAL_MAGIC, CAL_VERSION, slope, tare, Zero32)

\* loadCalibrationFromEEPROM without the comparison of the CRCs
loadCalibration_NoCrcCheck(rom, slope, tare) ==
  IF RecMagic(rom) # CAL_MAGIC \/ RecVersion(rom) # CAL_VERSION
  THEN [ok |-> FALSE, slope |-> slope, tare |-> tare]
  ELSE [ok |-> TRUE, slope |-> RecSlope(rom), tare |-> RecTare(rom)]

\* the record saveCalibrationToEEPROM(slope, tare) puts and commits
saveCalibrationToEEPROM(slope, tare) ==
  MkRecord(CAL_MAGIC, CAL_VERSION, slope, tare)

\* loadCalibrationFromEEPROM(slope, tare) on the stored bytes rom: the
\* reference arguments keep their values when the record is rejected
loadCalibrationFromEEPROM(rom, slope, tare) ==
  IF RecMagic(rom) # CAL_MAGIC \/ RecVersion(rom) # CAL_VERSION
  THEN [ok |-> FALSE, slope |-> slope, tare |-> tare]
  ELSE IF crc32_span(RecBody(rom)) # RecCrc(rom)
  THEN [ok |-> FALSE, slope |-> slope, tare |-> tare]
  ELSE [ok |-> TRUE, slope |-> RecSlope(rom), tare |-> RecTare(rom)]

\* ------------------------------------------------------------------------
\* Steps of the main context
\* ------------------------------------------------------------------------
Rest == UNCHANGED <<calV, cfgV, tachV, timeV, envV, ghostV>>

\* noInterrupts() / interrupts()
Cli(from, to) ==
  /\ pc = from /\ pc' = to /\ irq' = FALSE
  /\ UNCHANGED <<loc, ioV>> /\ Rest
Sei(from, to) ==
  /\ pc = from /\ pc' = to /\ irq' = TRUE
  /\ UNCHANGED <<loc, ioV>> /\ Rest

\* a step that only assigns locals
Local(from, to, newloc) ==
  /\ pc = from /\ pc' = to /\ loc' = newloc
  /\ UNCHANGED <<irq, ioV>> /\ Rest

\* Serial.print of one response line, then return to loop()
Emit(from, r) ==
  /\ pc = from /\ pc' = "line_done" /\ tx' = Append(tx, r)
  /\ UNCHANGED <<irq, loc, rx, linebuf>> /\ Rest

\* saveCalibrationToEEPROM(loc.slope, loc.tare), called with the return
\* position in loc.ret2
save ==
  /\ pc = "save" /\ pc' = loc.ret2
  /\ eeprom' = saveCalibrationToEEPROM(loc.slope, loc.tare)
  /\ boot' = [boot EXCEPT !.writes = @ + 1, !.damaged = FALSE,
                           !.saved = <<loc.slope, loc.tare>>]
  /\ UNCHANGED <<irq, loc, ioV, g_per_count, tare_offset, cfgV, tachV, timeV,
                 envV, line_raw, line_tx0, pre, tach_pairs, wall>>

\* resetCalibrationToDefaultsAndPersist(), called with the return position
\* in loc.ret
resetCalibrationToDefaultsAndPersist ==
  \/ Cli("reset_cli", "reset_set")
  \/ /\ pc = "reset_set" /\ pc' = "reset_sei"
     /\ g_per_count' = DEF_SLOPE
     /\ tare_offset' = DEF_TARE
     /\ loc' = [loc EXCEPT !.slope = DEF_SLOPE, !.tare = DEF_TARE, !.ret2 = loc.ret]
     /\ UNCHANGED <<irq, ioV, eeprom, cfgV, tachV, timeV, envV, ghostV>>
  \/ Sei("reset_sei", "save")

\* now_unix_ms(), called with the return position in loc.ret
now_unix_ms ==
  \/ Cli("now_cli", "now_rd")
  \/ Local("now_rd", "now_sei", [loc EXCEPT !.base = epoch_base_ms])
  \/ Sei("now_sei", "now_ret")
  \/ Local("now_ret", loc.ret, [loc EXCEPT !.ts = Add(loc.base, ZExt64(millis))])

\* the delays after which the HX711 may have its sample ready: 0 (at once),
\* at the last poll before the timeout, too late, and never (not connected)
HxLastPoll == HX711_READ_TIMEOUT_MS + 1
HxTooLate  == HX711_READ_TIMEOUT_MS + 2
HxNever    == -1
\* the raw counts hx.read() returns: 1000 and -5
RawCounts == {U32(1000), Neg(U32(5))}

\* hx_read_blocking waiting for is_ready() with neither timeout nor delay
hx_read_blocking_SpinWait ==
  \/ /\ pc = "hx_t0" /\ pc' = "hx_poll"
     /\ loc' = [loc EXCEPT !.t0 = millis]
     /\ hx_ready_in' \in hx_plan
     /\ UNCHANGED <<irq, ioV, calV, cfgV, tachV, millis, envV, ghostV>>
  \/ /\ pc = "hx_poll" /\ hx_ready_in = 0
     /\ \E raw \in RawCounts :
          Local("hx_poll", loc.ret, [loc EXCEPT !.raw = raw, !.ok = TRUE])

\* hx_read_blocking(raw), called with the return position in loc.ret;
\* loc.ok is its result
hx_read_blocking ==
  \/ /\ pc = "hx_t0" /\ pc' = "hx_poll"
     /\ loc' = [loc EXCEPT !.t0 = millis]
     /\ hx_ready_in' \in hx_plan
     /\ UNCHANGED <<irq, ioV, calV, cfgV, tachV, millis, envV, ghostV>>
  \/ /\ pc = "hx_poll" /\ hx_ready_in = 0          \* is_ready(): raw = hx.read()
     /\ \E raw \in RawCounts :
          Local("hx_poll", loc.ret, [loc EXCEPT !.raw = raw, !.ok = TRUE])
  \/ /\ pc = "hx_poll" /\ hx_ready_in # 0
     /\ Gt(Sub(millis, loc.t0), U32(HX711_READ_TIMEOUT_MS))
     /\ Local("hx_poll", loc.ret, [loc EXCEPT !.ok = FALSE])
  \/ /\ pc = "hx_poll" /\ hx_ready_in # 0
     /\ ~Gt(Sub(millis, loc.t0), U32(HX711_READ_TIMEOUT_MS))
     /\ Local("hx_poll", "hx_delay", loc)
  \/ /\ pc = "hx_delay" /\ pc' = "hx_poll"         \* delay(1)
     /\ millis' = Add(millis, U32(1))
     /\ hx_ready_in' = IF hx_ready_in > 0 THEN hx_ready_in - 1 ELSE hx_ready_in
     /\ wall' = [wall EXCEPT !.up = Add(@, U64(1))]
     /\ UNCHANGED <<irq, loc, ioV, calV, cfgV, tachV, envV, line_raw, line_tx0,
                    pre, boot, tach_pairs>>

\* tach_snapshot() without its noInterrupts()
tach_snapshot_NoLock ==
  \/ Local("cmd_speed", "snap_rd1", loc)
  \/ Local("snap_rd1", "snap_rd2", [loc EXCEPT !.pulses = tach_pulses_total])
  \/ Local("snap_rd2", "snap_sei", [loc EXCEPT !.period = last_period_us])
  \/ Sei("snap_sei", "speed_rpm")

\* tach_snapshot(), inlined in cmd_speed
tach_snapshot ==
  \/ Cli("cmd_speed", "snap_rd1")
  \/ Local("snap_rd1", "snap_rd2", [loc EXCEPT !.pulses = tach_pulses_total])
  \/ Local("snap_rd2", "snap_sei", [loc EXCEPT !.period = last_period_us])
  \/ Sei("snap_sei", "speed_rpm")

\* Single-precision arithmetic on positive normal numbers. A float is
\* [m, e] with 2^23 <= m < 2^24 and the value m * 2^e.
RECURSIVE BitLen(_)
BitLen(n) == IF n = 0 THEN 0 ELSE 1 + BitLen(n \div 2)

\* the float nearest to n * 2^e, ties to the even mantissa (0 < n < 2^31)
FRound(n, e) ==
  LET k == BitLen(n) - 24
  IN  IF k <= 0 THEN [m |-> n * 2^(0 - k), e |-> e + k]
      ELSE LET q  == n \div 2^k
               r  == n % 2^k
               h  == 2^(k - 1)
               up == IF r > h \/ (r = h /\ q % 2 = 1) THEN q + 1 ELSE q
           IN  IF up = 2^24 THEN [m |-> 2^23, e |-> e + k + 1]
               ELSE [m |-> up, e |-> e + k]

\* (float)u of a nonzero uint32_t; a value of 32 bits is halved first, its
\* lowest bit kept as a sticky bit
ToFloat(u) ==
  IF u[2] < Limb \div 2 THEN FRound(u[2] * Limb + u[1], 0)
  ELSE FRound(u[2] * (Limb \div 2) + (u[1] \div 2)
                + (IF u[1] % 4 = 1 THEN 1 ELSE 0), 1)

\* q followed by the next n bits of r / d (r < d), and a last bit that is
\* set when the division has a remainder
RECURSIVE DivBits(_, _, _, _)
DivBits(q, r, d, n) ==
  IF n = 0 THEN 2 * q + (IF r = 0 THEN 0 ELSE 1)
  ELSE IF 2 * r >= d THEN DivBits(2 * q + 1, 2 * r - d, d, n - 1)
       ELSE DivBits(2 * q, 2 * r, d, n - 1)

\* a / b rounded to single precision
FDiv(a, b) ==
  CHOOSE f \in {FRound(n, x.e - y.e - 27)
                 : n \in {DivBits(a.m \div b.m, a.m % b.m, b.m, 26)},
                   x \in {a}, y \in {b}} : TRUE

\* the IEEE-754 bit pattern of a float
FBits(f) == <<f.m % Limb, (f.e + 150) * 128 + (f.m - 2^23) \div Limb>>

\* compute_rpm without the division by PULSES_PER_REV
compute_rpm_NoPpr(period, ppr) ==
  IF IsZero(period) \/ IsZero(ppr) THEN Zero32
  ELSE CHOOSE rpm \in
         {FBits(FRound(rps.m * 15, rps.e + 2))
            : rps \in {FDiv(ToFloat(U32(1)), period_s)
                         : period_s \in {FDiv(ToFloat(period), ToFloat(U32(1000000)))}}}
         : TRUE

\* compute_rpm(s): 0.0f when the period or PULSES_PER_REV is 0; otherwise
\* period_s = period / 1e6f, rps = (1.0f / period_s) / ppr, 60.0f * rps
\* (period_s <= 0.0f cannot hold: period_s is at least 1e-6)
compute_rpm(period, ppr) ==
  IF IsZero(period) \/ IsZero(ppr) THEN Zero32
  ELSE CHOOSE rpm \in
         {FBits(FRound(rps.m * 15, rps.e + 2))
            : rps \in {FDiv(FDiv(ToFloat(U32(1)), period_s), ToFloat(ppr))
                         : period_s \in {FDiv(ToFloat(period), ToFloat(U32(1000000)))}}}
         : TRUE

cmd_ping == Emit("cmd_ping", Resp("OK PONG", <<>>))
cmd_info == Emit("cmd_info", Resp("OK INFO", <<>>))
cmd_unknown == Emit("cmd_unknown", Resp("ERR 10", <<>>))

cmd_load ==
  \/ Local("cmd_load", "hx_t0", [loc EXCEPT !.ret = "load_chk"])
  \/ /\ pc = "load_chk" /\ ~loc.ok /\ Emit("load_chk", Resp("ERR 20", <<>>))
  \/ /\ pc = "load_chk" /\ loc.ok /\ Cli("load_chk", "load_rd")
  \/ Local("load_rd", "load_sei", [loc EXCEPT !.tare = tare_offset, !.slope = g_per_count])
  \/ Sei("load_sei", "load_now")
  \/ Local("load_now", "now_cli", [loc EXCEPT !.ret = "load_print"])
  \/ Emit("load_print",
          Resp("OK LOAD", <<Sub(loc.raw, loc.tare), loc.slope, loc.raw, loc.ts>>))

\* cmd_tare going on to store the raw count whatever hx_read_blocking returned
cmd_tare_IgnoreTimeout ==
  \/ Local("cmd_tare", "hx_t0", [loc EXCEPT !.ret = "tare_chk"])
  \/ Cli("tare_chk", "tare_set")
  \/ /\ pc = "tare_set" /\ pc' = "tare_sei"
     /\ tare_offset' = loc.raw
     /\ loc' = [loc EXCEPT !.slope = g_per_count, !.tare = loc.raw, !.ret2 = "tare_print"]
     /\ UNCHANGED <<irq, ioV, g_per_count, eeprom, cfgV, tachV, timeV, envV, ghostV>>
  \/ Sei("tare_sei", "save")
  \/ Emit("tare_print", Resp("OK TARE", <<>>))

\* cmd_tare without its interrupts() before the save
cmd_tare_NoSei ==
  \/ Local("cmd_tare", "hx_t0", [loc EXCEPT !.ret = "tare_chk"])
  \/ /\ pc = "tare_chk" /\ ~loc.ok /\ Emit("tare_chk", Resp("ERR 20", <<>>))
  \/ /\ pc = "tare_chk" /\ loc.ok /\ Cli("tare_chk", "tare_set")
  \/ /\ pc = "tare_set" /\ pc' = "tare_sei"
     /\ tare_offset' = loc.raw
     /\ loc' = [loc EXCEPT !.slope = g_per_count, !.tare = loc.raw, !.ret2 = "tare_print"]
     /\ UNCHANGED <<irq, ioV, g_per_count, eeprom, cfgV, tachV, timeV, envV, ghostV>>
  \/ Local("tare_sei", "save", loc)
  \/ Emit("tare_print", Resp("OK TARE", <<>>))

cmd_tare ==
  \/ Local("cmd_tare", "hx_t0", [loc EXCEPT !.ret = "tare_chk"])
  \/ /\ pc = "tare_chk" /\ ~loc.ok /\ Emit("tare_chk", Resp("ERR 20", <<>>))
  \/ /\ pc = "tare_chk" /\ loc.ok /\ Cli("tare_chk", "tare_set")
  \/ /\ pc = "tare_set" /\ pc' = "tare_sei"
     /\ tare_offset' = loc.raw
     /\ loc' = [loc EXCEPT !.slope = g_per_count, !.tare = loc.raw, !.ret2 = "tare_print"]
     /\ UNCHANGED <<irq, ioV, g_per_count, eeprom, cfgV, tachV, timeV, envV, ghostV>>
  \/ Sei("tare_sei", "save")
  \/ Emit("tare_print", Resp("OK TARE", <<>>))

cmd_speed ==
  \/ tach_snapshot
  \/ Local("speed_rpm", "now_cli",
           [loc EXCEPT !.rpm = compute_rpm(loc.period, PULSES_PER_REV),
                       !.ret = "speed_print"])
  \/ Emit("speed_print",
          Resp("OK SPEED", <<loc.rpm, loc.period, loc.pulses, loc.ts>>))

cmd_settime ==
  \/ /\ pc = "cmd_settime"
     /\ \E t \in {strtok(loc.args, {SP, TAB})} :
          /\ ~t.found
          /\ Emit("cmd_settime", Resp("ERR 30", <<>>))
  \/ /\ pc = "cmd_settime"
     /\ \E t \in {strtok(loc.args, {SP, TAB})} :
          /\ t.found
          /\ \E v \in {strtoull(t.tok)} :
               Local("cmd_settime", "settime_cli", [loc EXCEPT !.v = v])
  \/ Cli("settime_cli", "settime_set")
  \/ /\ pc = "settime_set" /\ pc' = "settime_sei"
     /\ epoch_base_ms' = Sub(loc.v, ZExt64(millis))
     /\ wall' = [wall EXCEPT !.set = TRUE, !.v = loc.v, !.at = wall.up]
     /\ UNCHANGED <<irq, loc, ioV, calV, PULSES_PER_REV, tachV, timeV, envV,
                    line_raw, line_tx0, pre, boot, tach_pairs>>
  \/ Sei("settime_sei", "settime_print")
  \/ Emit("settime_print", Resp("OK SETTIME", <<>>))

\* cmd_setcal's argument check testing the first token only
SetcalTokens_FirstOnly(args) ==
  LET a == strtok(args, {SP, TAB})
      b == strtok(a.rest, {SP, TAB})
  IN  [ok |-> a.found, a |-> a.tok, b |-> b.tok]

\* the two tokens cmd_setcal takes from its argument string
SetcalTokens(args) ==
  LET a == strtok(args, {SP, TAB})
      b == strtok(a.rest, {SP, TAB})
  IN  [ok |-> a.found /\ b.found, a |-> a.tok, b |-> b.tok]

\* cmd_setcal without its call of saveCalibrationToEEPROM
cmd_setcal_NoSave ==
  \/ /\ pc = "cmd_setcal"
     /\ \E t \in {SetcalTokens(loc.args)} :
          /\ ~t.ok
          /\ Emit("cmd_setcal", Resp("ERR 31", <<>>))
  \/ /\ pc = "cmd_setcal"
     /\ \E t \in {SetcalTokens(loc.args)} :
          /\ t.ok
          /\ \E slope \in {atof(t.a)}, tare \in {atol(t.b)} :
               Local("cmd_setcal", "setcal_cli",
                     [loc EXCEPT !.slope = slope, !.tare = tare,
                                 !.ret2 = "setcal_print"])
  \/ Cli("setcal_cli", "setcal_set")
  \/ /\ pc = "setcal_set" /\ pc' = "setcal_sei"
     /\ g_per_count' = loc.slope
     /\ tare_offset' = loc.tare
     /\ UNCHANGED <<irq, loc, ioV, eeprom, cfgV, tachV, timeV, envV, ghostV>>
  \/ Sei("setcal_sei", "setcal_print")
  \/ Emit("setcal_print", Resp("OK SETCAL", <<>>))

cmd_setcal ==
  \/ /\ pc = "cmd_setcal"
     /\ \E t \in {SetcalTokens(loc.args)} :
          /\ ~t.ok
          /\ Emit("cmd_setcal", Resp("ERR 31", <<>>))
  \/ /\ pc = "cmd_setcal"
     /\ \E t \in {SetcalTokens(loc.args)} :
          /\ t.ok
          /\ \E slope \in {atof(t.a)}, tare \in {atol(t.b)} :
               Local("cmd_setcal", "setcal_cli",
                     [loc EXCEPT !.slope = slope, !.tare = tare,
                                 !.ret2 = "setcal_print"])
  \/ Cli("setcal_cli", "setcal_set")
  \/ /\ pc = "setcal_set" /\ pc' = "setcal_sei"
     /\ g_per_count' = loc.slope
     /\ tare_offset' = loc.tare
     /\ UNCHANGED <<irq, loc, ioV, eeprom, cfgV, tachV, timeV, envV, ghostV>>
  \/ Sei("setcal_sei", "save")
  \/ Emit("setcal_print", Resp("OK SETCAL", <<>>))

cmd_calq ==
  \/ Cli("cmd_calq", "calq_rd")
  \/ Local("calq_rd", "calq_sei", [loc EXCEPT !.slope = g_per_count, !.tare = tare_offset])
  \/ Sei("calq_sei", "calq_print")
  \/ Emit("calq_print", Resp("OK CAL", <<loc.slope, loc.tare>>))

cmd_resetcal ==
  \/ Local("cmd_resetcal", "reset_cli", [loc EXCEPT !.ret = "resetcal_print"])
  \/ Emit("resetcal_print", Resp("OK RESETCAL", <<>>))

\* cmd_setppr without the test for zero
cmd_setppr_NoZeroCheck ==
  \/ /\ pc = "cmd_setppr"
     /\ \E t \in {strtok(loc.args, {SP, TAB})} :
          /\ ~t.found
          /\ Emit("cmd_setppr", Resp("ERR 32", <<>>))
  \/ /\ pc = "cmd_setppr"
     /\ \E t \in {strtok(loc.args, {SP, TAB})} :
          /\ t.found
          /\ \E ppr \in {strtoul(t.tok)} :
               Local("cmd_setppr", "setppr_cli", [loc EXCEPT !.ppr = ppr])
  \/ Cli("setppr_cli", "setppr_set")
  \/ /\ pc = "setppr_set" /\ pc' = "setppr_sei"
     /\ PULSES_PER_REV' = loc.ppr
     /\ UNCHANGED <<irq, loc, ioV, calV, epoch_base_ms, tachV, timeV, envV, ghostV>>
  \/ Sei("setppr_sei", "setppr_print")
  \/ Emit("setppr_print", Resp("OK SETPPR", <<>>))

cmd_setppr ==
  \/ /\ pc = "cmd_setppr"
     /\ \E t \in {strtok(loc.args, {SP, TAB})} :
          /\ ~t.found
          /\ Emit("cmd_setppr", Resp("ERR 32", <<>>))
  \/ /\ pc = "cmd_setppr"
     /\ \E t \in {strtok(loc.args, {SP, TAB})} :
          /\ t.found
          /\ \E ppr \in {strtoul(t.tok)} :
               /\ IsZero(ppr)
               /\ Emit("cmd_setppr", Resp("ERR 33", <<>>))
  \/ /\ pc = "cmd_setppr"
     /\ \E t \in {strtok(loc.args, {SP, TAB})} :
          /\ t.found
          /\ \E ppr \in {strtoul(t.tok)} :
               /\ ~IsZero(ppr)
               /\ Local("cmd_setppr", "setppr_cli", [loc EXCEPT !.ppr = ppr])
  \/ Cli("setppr_cli", "setppr_set")
  \/ /\ pc = "setppr_set" /\ pc' = "setppr_sei"
     /\ PULSES_PER_REV' = loc.ppr
     /\ UNCHANGED <<irq, loc, ioV, calV, epoch_base_ms, tachV, timeV, envV, ghostV>>
  \/ Sei("setppr_sei", "setppr_print")
  \/ Emit("setppr_print", Resp("OK SETPPR", <<>>))

cmd_pprq ==
  \/ Cli("cmd_pprq", "pprq_rd")
  \/ Local("pprq_rd", "pprq_sei", [loc EXCEPT !.ppr = PULSES_PER_REV])
  \/ Sei("pprq_sei", "pprq_print")
  \/ Emit("pprq_print", Resp("OK PPR", <<loc.ppr>>))

\* ------------------------------------------------------------------------
\* Parser and main loop
\* ------------------------------------------------------------------------
\* the line handle_line works on: the buffer up to its terminator, without
\* trailing CR/LF and leading blanks
TrimLine(buf) == DropWhile(DropTrailing(CStr(buf), {CR, LF}), {SP, TAB})

\* the handler a command word selects
Dispatch(cmd) ==
  IF streqi(cmd, Str_PING) THEN "cmd_ping"
  ELSE IF streqi(cmd, Str_INFO) THEN "cmd_info"
  ELSE IF streqi(cmd, Str_LOADQ) THEN "cmd_load"
  ELSE IF streqi(cmd, Str_TARE) THEN "cmd_tare"
  ELSE IF streqi(cmd, Str_SPEEDQ) THEN "cmd_speed"
  ELSE IF streqi(cmd, Str_SETTIME) THEN "cmd_settime"
  ELSE IF streqi(cmd, Str_SETCAL) THEN "cmd_setcal"
  ELSE IF streqi(cmd, Str_CALQ) THEN "cmd_calq"
  ELSE IF streqi(cmd, Str_RESETCAL) THEN "cmd_resetcal"
  ELSE IF streqi(cmd, Str_SETPPR) THEN "cmd_setppr"
  ELSE IF streqi(cmd, Str_PPRQ) THEN "cmd_pprq"
  ELSE "cmd_unknown"

handle_line ==
  /\ pc = "handle_line"
  /\ \E line \in {TrimLine(linebuf)} :
       IF line = <<>>
       THEN pc' = "line_done" /\ loc' = loc
       ELSE \E t \in {strtok(line, {SP, TAB})} :
              /\ pc' = Dispatch(t.tok)
              /\ loc' = [loc EXCEPT !.cmd = t.tok, !.args = t.rest]
  /\ pre' = Settings
  /\ UNCHANGED <<irq, ioV, calV, cfgV, tachV, timeV, envV, line_raw, line_tx0,
                 boot, tach_pairs, wall>>

\* back in loop() after handle_line: idx = 0
line_done ==
  /\ pc = "line_done" /\ pc' = "loop"
  /\ linebuf' = <<>>
  /\ loc' = Loc0
  /\ line_raw' = <<>>
  /\ line_tx0' = Len(tx)
  /\ UNCHANGED <<irq, rx, tx, calV, cfgV, tachV, timeV, envV, pre, boot,
                 tach_pairs, wall>>

\* one iteration of while (Serial.available() > 0)
loop ==
  /\ pc = "loop" /\ rx # <<>>
  /\ rx' = Tail(rx)
  /\ LET c == Head(rx)
     IN  \/ /\ c = CR
            /\ UNCHANGED <<pc, linebuf, tx, line_raw>>
         \/ /\ c = LF
            /\ pc' = "handle_line"
            /\ UNCHANGED <<linebuf, tx, line_raw>>
         \/ /\ c \notin {CR, LF} /\ Len(linebuf) < LINEBUF_SIZE - 1
            /\ linebuf' = Append(linebuf, c)
            /\ line_raw' = Append(line_raw, c)
            /\ UNCHANGED <<pc, tx>>
         \/ /\ c \notin {CR, LF} /\ ~(Len(linebuf) < LINEBUF_SIZE - 1)
            /\ linebuf' = <<>>
            /\ tx' = Append(tx, Resp("ERR 11", <<>>))
            /\ line_raw' = Append(line_raw, c)
            /\ UNCHANGED pc
  /\ UNCHANGED <<irq, loc, calV, cfgV, tachV, timeV, envV, line_tx0, pre, boot,
                 tach_pairs, wall>>

setup ==
  \/ /\ pc = "setup"
     /\ LET r == loadCalibrationFromEEPROM(eeprom, loc.slope, loc.tare)
        IN  /\ pc' = IF r.ok THEN "setup_cli" ELSE "reset_cli"
            /\ loc' = [loc EXCEPT !.ok = r.ok, !.slope = r.slope, !.tare = r.tare,
                                  !.ret = "setup_hw"]
            /\ boot' = [boot EXCEPT !.cold = ~r.ok]
     /\ UNCHANGED <<irq, ioV, calV, cfgV, tachV, timeV, envV, line_raw, line_tx0,
                    pre, tach_pairs, wall>>
  \/ Cli("setup_cli", "setup_set")
  \/ /\ pc = "setup_set" /\ pc' = "setup_sei"
     /\ g_per_count' = loc.slope
     /\ tare_offset' = loc.tare
     /\ UNCHANGED <<irq, loc, ioV, eeprom, cfgV, tachV, timeV, envV, ghostV>>
  \/ Sei("setup_sei", "setup_hw")
  \/ /\ pc = "setup_hw" /\ pc' = "loop"            \* attachInterrupt, banner
     /\ attached' = TRUE
     /\ tx' = Append(tx, Resp("OK READY", <<>>))
     /\ loc' = Loc0
     /\ line_tx0' = Len(tx) + 1
     /\ boot' = [boot EXCEPT !.writes = 0]
     /\ pre' = Settings
     /\ UNCHANGED <<irq, rx, linebuf, calV, cfgV, tachV, timeV, script,
                    edges_left, ticks_left, boots_left, hx_plan, line_raw,
                    tach_pairs, wall>>

Main ==
  \/ setup \/ loop \/ handle_line \/ line_done
  \/ cmd_ping \/ cmd_info \/ cmd_unknown \/ cmd_load \/ cmd_tare \/ cmd_speed
  \/ cmd_settime \/ cmd_setcal \/ cmd_calq \/ cmd_resetcal \/ cmd_setppr
  \/ cmd_pprq \/ hx_read_blocking \/ now_unix_ms
  \/ resetCalibrationToDefaultsAndPersist \/ save

\* ------------------------------------------------------------------------
\* Interrupt context
\* ------------------------------------------------------------------------
\* tach_isr() without the glitch reject
tach_isr_NoReject(pulses, edge, period, now) ==
  [pulses |-> Add(pulses, U32(1)),
   edge   |-> now,
   period |-> IF ~IsZero(edge) THEN Sub(now, edge) ELSE period]

\* tach_isr() clearing the period on a rejected edge
tach_isr_ClearOnGlitch(pulses, edge, period, now) ==
  [pulses |-> Add(pulses, U32(1)),
   edge   |-> now,
   period |-> IF ~IsZero(edge) /\ Gt(Sub(now, edge), U32(GLITCH_US))
              THEN Sub(now, edge)
              ELSE Zero32]

\* the tach fields after tach_isr() has run with micros() = now
tach_isr_body(pulses, edge, period, now) ==
  [pulses |-> Add(pulses, U32(1)),
   edge   |-> now,
   period |-> IF ~IsZero(edge) /\ Gt(Sub(now, edge), U32(GLITCH_US))
              THEN Sub(now, edge)
              ELSE period]

\* the time between tachometer edges: 50 us, 150 us, and the gap that
\* takes micros() from 50 back to 0
EdgeGaps == {U32(50), U32(150), Neg(U32(50))}

\* a rising edge gap microseconds after the last one: tach_isr() runs to
\* completion, between two steps of the main context
tach_isr ==
  /\ irq /\ attached /\ edges_left > 0
  /\ \E gap \in EdgeGaps :
       LET now == Add(micros, gap)
           r   == tach_isr_body(tach_pulses_total, last_edge_us, last_period_us, now)
       IN  /\ micros' = now
           /\ tach_pulses_total' = r.pulses
           /\ last_edge_us' = r.edge
           /\ last_period_us' = r.period
           /\ tach_pairs' = tach_pairs \cup {<<r.pulses, r.period>>}
  /\ edges_left' = edges_left - 1
  /\ UNCHANGED <<ctlV, ioV, calV, cfgV, timeV, script, ticks_left, boots_left,
                 attached, hx_plan, line_raw, line_tx0, pre, boot, wall>>

\* ------------------------------------------------------------------------
\* Environment
\* ------------------------------------------------------------------------
\* the host sends its next piece once the device has read the last one
HostSend ==
  /\ pc = "loop" /\ rx = <<>> /\ script # <<>>
  /\ rx' = Head(script)
  /\ script' = Tail(script)
  /\ UNCHANGED <<ctlV, linebuf, tx, calV, cfgV, tachV, timeV, edges_left,
                 ticks_left, boots_left, attached, hx_plan, ghostV>>

\* time passing while the device is idle: 250 ms, or up to 300 ms before
\* millis() wraps around
IdleMs == {U32(250), Neg(U32(300))}

TickMs ==
  /\ pc = "loop" /\ rx = <<>> /\ ticks_left > 0
  /\ \E d \in IdleMs :
       /\ millis' = Add(millis, d)
       /\ wall' = [wall EXCEPT !.up = Add(@, ZExt64(d))]
  /\ ticks_left' = ticks_left - 1
  /\ UNCHANGED <<ctlV, ioV, calV, cfgV, tachV, hx_ready_in, script, edges_left,
                 boots_left, attached, hx_plan, line_raw, line_tx0, pre, boot,
                 tach_pairs>>

\* the history of the boots at the first power-on: no save yet (saved is
\* the pair last given to saveCalibrationToEEPROM), the record not damaged,
\* no calibration live before (live is the pair in RAM at the power cycle)
Boot0 ==
  [n |-> 1, cold |-> FALSE, writes |-> 0, prev_cold |-> FALSE, prev_writes |-> 0,
   saved |-> <<>>, damaged |-> FALSE, live |-> <<>>]

\* the history of the clock at power-on
Wall0 == [up |-> Zero64, set |-> FALSE, v |-> Zero64, at |-> Zero64]

\* a power cycle while the device is idle: RAM and clocks start over, the
\* EEPROM keeps its bytes
Reboot ==
  /\ pc = "loop" /\ rx = <<>> /\ boots_left > 0
  /\ boots_left' = boots_left - 1
  /\ pc' = "setup" /\ irq' = TRUE /\ attached' = FALSE /\ loc' = Loc0
  /\ linebuf' = <<>>
  /\ g_per_count' = DEF_SLOPE /\ tare_offset' = DEF_TARE
  /\ PULSES_PER_REV' = U32(1) /\ epoch_base_ms' = Zero64
  /\ tach_pulses_total' = Zero32 /\ last_edge_us' = Zero32 /\ last_period_us' = Zero32
  /\ micros' = Zero32 /\ millis' = Zero32 /\ hx_ready_in' = 0
  /\ line_raw' = <<>>
  /\ boot' = [n |-> boot.n + 1, cold |-> FALSE, writes |-> 0,
              prev_cold |-> boot.cold, prev_writes |-> boot.writes,
              saved |-> boot.saved, damaged |-> boot.damaged,
              live |-> <<g_per_count, tare_offset>>]
  /\ wall' = Wall0
  /\ UNCHANGED <<rx, tx, eeprom, script, edges_left, ticks_left, hx_plan,
                 line_tx0, pre, tach_pairs>>

\* the values a byte of the EEPROM may be changed to
ByteValues == {0, 1, 85, 128, 254, 255}

\* a fault of the storage while the device is idle: one byte of the saved
\* record changes to another value
Damage ==
  /\ pc = "loop" /\ rx = <<>> /\ boots_left > 0
  /\ boot.saved # <<>> /\ ~boot.damaged
  /\ \E i \in 1..CAL_RECORD_SIZE, b \in ByteValues :
       /\ b # eeprom[i]
       /\ eeprom' = [eeprom EXCEPT ![i] = b]
  /\ boot' = [boot EXCEPT !.damaged = TRUE]
  /\ UNCHANGED <<ctlV, ioV, g_per_count, tare_offset, cfgV, tachV, timeV, envV,
                 line_raw, line_tx0, pre, tach_pairs, wall>>

Next == Main \/ tach_isr \/ HostSend \/ Reboot

\* ------------------------------------------------------------------------
\* Initial states
\* ------------------------------------------------------------------------
Junk(n) == [i \in 1..n |-> "x"]
Cmd1(c) == c \o <<LF>>
Cmd2(c, a) == c \o <<SP>> \o a \o <<LF>>
Cmd3(c, a, b) == c \o <<SP>> \o a \o <<SP>> \o b \o <<LF>>

\* what the EEPROM slot may hold at power-on
RomErased     == [i \in 1..CAL_RECORD_SIZE |-> 255]
RomZero       == [i \in 1..CAL_RECORD_SIZE |-> 0]
RomDefault    == MkRecord(CAL_MAGIC, CAL_VERSION, DEF_SLOPE, DEF_TARE)
RomOther      == MkRecord(CAL_MAGIC, CAL_VERSION, atof(<<"0", ".", "5">>), U32(7))
RomBadMagic   == MkRecord(Add(CAL_MAGIC, U32(1)), CAL_VERSION, DEF_SLOPE, DEF_TARE)
RomBadVersion == MkRecord(CAL_MAGIC, Add(CAL_VERSION, U32(1)), DEF_SLOPE, DEF_TARE)
RomBadCrc     == [RomOther EXCEPT ![CAL_RECORD_SIZE] = (@ + 1) % 256]
Roms == {RomErased, RomZero, RomDefault, RomOther, RomBadMagic, RomBadVersion, RomBadCrc}

\* power-on with the EEPROM holding one of roms and the host about to send
\* one of scripts
InitWith(scripts, roms, plan, edges, ticks, boots) ==
  /\ pc = "setup" /\ irq = TRUE /\ attached = FALSE /\ loc = Loc0
  /\ rx = <<>> /\ linebuf = <<>> /\ tx = <<>>
  /\ g_per_count = DEF_SLOPE /\ tare_offset = DEF_TARE
  /\ eeprom \in roms
  /\ PULSES_PER_REV = U32(1) /\ epoch_base_ms = Zero64
  /\ tach_pulses_total = Zero32 /\ last_edge_us = Zero32 /\ last_period_us = Zero32
  /\ micros = Zero32 /\ millis = Zero32 /\ hx_ready_in = 0
  /\ script \in scripts /\ hx_plan = plan
  /\ edges_left = edges /\ ticks_left = ticks /\ boots_left = boots
  /\ line_raw = <<>> /\ line_tx0 = 0
  /\ pre = <<Zero64, DEF_SLOPE, DEF_TARE, eeprom, U32(1)>>
  /\ boot = Boot0
  /\ tach_pairs = {<<Zero32, Zero32>>}
  /\ wall = Wall0

\* every command, with and without arguments, valid and not
CommandLines ==
  { Cmd1(Str_PING), <<"p", "i", "n", "g", CR, LF>>, Cmd1(Str_INFO),
    Cmd1(Str_LOADQ), Cmd1(Str_TARE), Cmd1(Str_SPEEDQ), Cmd1(Str_CALQ),
    Cmd1(Str_RESETCAL), Cmd1(Str_PPRQ), Cmd1(<<"F", "O", "O">>),
    Cmd1(Str_SETTIME), Cmd2(Str_SETTIME, <<"1", "0", "0", "0", "0", "0", "0">>),
    Cmd2(Str_SETTIME, <<"a", "b", "c">>),
    Cmd1(Str_SETCAL), Cmd2(Str_SETCAL, <<"0", ".", "5">>),
    Cmd3(Str_SETCAL, <<"0", ".", "5">>, <<"-", "5">>),
    Cmd3(Str_SETCAL, <<"a", "b", "c">>, <<"d", "e", "f">>),
    Cmd1(Str_SETPPR), Cmd2(Str_SETPPR, <<"2">>), Cmd2(Str_SETPPR, <<"0">>),
    Cmd2(Str_SETPPR, <<"a", "b", "c">>),
    <<LF>>, <<SP, TAB, LF>> }

\* one command, or a command that changes a setting followed by a query
SettingLines ==
  { Cmd1(Str_TARE), Cmd1(Str_RESETCAL),
    Cmd3(Str_SETCAL, <<"0", ".", "5">>, <<"-", "5">>),
    Cmd3(Str_SETCAL, <<"a", "b", "c">>, <<"d", "e", "f">>),
    Cmd2(Str_SETPPR, <<"2">>) }
QueryLines == { Cmd1(Str_CALQ), Cmd1(Str_PPRQ) }

Scripts ==
  {<<l>> : l \in CommandLines} \cup {<<a, b>> : a \in SettingLines, b \in QueryLines}

Init == InitWith(Scripts, Roms, {0, HxTooLate}, CmdEdges, 0, MaxBoots)
Spec == Init /\ [][Next]_vars

\* ------------------------------------------------------------------------
\* The line protocol under over-long and odd lines
\* ------------------------------------------------------------------------
\* unterminated runs and lines around the buffer's capacity, short lines
\* with blanks, a NUL byte and two lines in one piece
LineScripts ==
  { <<Junk(OverflowRun), Cmd1(Str_PING)>>,
    <<Junk(LINEBUF_SIZE - 1) \o <<LF>>>>,
    <<Junk(LINEBUF_SIZE) \o <<LF>>>>,
    <<Junk(LINEBUF_SIZE + 1) \o <<LF>>>>,
    <<Junk(LINEBUF_SIZE) \o Cmd3(Str_SETCAL, <<"0", ".", "5">>, <<"-", "5">>)>>,
    <<Junk(2 * LINEBUF_SIZE) \o <<LF>>>>,
    <<Cmd1(Str_PING)>>, <<<<"p", "i", "n", "g", CR, LF>>>>,
    <<<<SP, TAB>> \o Str_PING \o <<SP, SP, LF>>>>,
    <<Cmd1(<<"F", "O", "O">>)>>, <<Cmd1(Str_SETCAL)>>,
    <<Cmd3(Str_SETCAL, <<"0", ".", "5">>, <<"-", "5">>)>>,
    <<<<LF>>>>, <<<<CR, LF>>>>, <<<<SP, TAB, LF>>>>,
    <<<<NUL>> \o Cmd1(Str_PING)>>, <<Str_PING \o <<NUL, "x", LF>>>>,
    <<Cmd1(Str_PING) \o Cmd1(<<"F", "O", "O">>), Cmd1(Str_PING)>> }

InitLine == InitWith(LineScripts, {RomDefault}, {0}, 0, 0, 0)
NextLine ==
  \/ setup \/ loop \/ handle_line \/ line_done
  \/ cmd_ping \/ cmd_unknown \/ cmd_setcal \/ save
  \/ HostSend
SpecLine == InitLine /\ [][NextLine]_vars

\* ------------------------------------------------------------------------
\* The tachometer under SPEED?
\* ------------------------------------------------------------------------
TachScripts == { <<Cmd1(Str_SPEEDQ)>>, <<Cmd1(Str_SPEEDQ), Cmd1(Str_SPEEDQ)>> }

InitTach == InitWith(TachScripts, {RomDefault}, {0}, MaxEdges, 0, 0)
NextTach ==
  \/ setup \/ loop \/ handle_line \/ line_done
  \/ cmd_speed \/ now_unix_ms
  \/ tach_isr \/ HostSend
SpecTach == InitTach /\ [][NextTach]_vars

\* ------------------------------------------------------------------------
\* Timestamps under SETTIME and a running clock
\* ------------------------------------------------------------------------
\* SETTIME with a value above and below what millis() may read, then a
\* query; SETTIME without its argument
TimeScripts ==
  { <<Cmd2(Str_SETTIME, <<"1", "0", "0", "0", "0", "0", "0">>), Cmd1(Str_LOADQ)>>,
    <<Cmd2(Str_SETTIME, <<"1", "0", "0", "0", "0", "0", "0">>), Cmd1(Str_SPEEDQ)>>,
    <<Cmd2(Str_SETTIME, <<"5">>), Cmd1(Str_LOADQ)>>,
    <<Cmd1(Str_SETTIME), Cmd1(Str_SPEEDQ)>> }

InitTime == InitWith(TimeScripts, {RomDefault}, {0, 3, HxTooLate}, 0, MaxTicks, 0)
NextTime ==
  \/ setup \/ loop \/ handle_line \/ line_done
  \/ cmd_settime \/ cmd_load \/ cmd_speed \/ hx_read_blocking \/ now_unix_ms
  \/ HostSend \/ TickMs
SpecTime == InitTime /\ [][NextTime]_vars

\* ------------------------------------------------------------------------
\* The calibration store: save, damage, power cycle, load
\* ------------------------------------------------------------------------
\* slopes as float bit patterns: 0.0020f, 0.5f, -1.5f, a NaN
CalSlopes == {DEF_SLOPE, <<0, 16128>>, <<0, 49088>>, <<0, 32704>>}
\* tares: 0, -5, LONG_MIN
CalTares == {Zero32, Neg(U32(5)), LongMin}

\* cmd_setcal or cmd_tare has stored slope and tare in RAM and is at its
\* call of saveCalibrationToEEPROM(slope, tare); its OK response is left out
InitCal ==
  /\ pc = "save" /\ irq = TRUE /\ attached = TRUE
  /\ \E slope \in CalSlopes, tare \in CalTares :
       /\ g_per_count = slope /\ tare_offset = tare
       /\ loc = [Loc0 EXCEPT !.slope = slope, !.tare = tare, !.ret2 = "line_done"]
  /\ rx = <<>> /\ linebuf = <<>> /\ tx = <<Resp("OK READY", <<>>)>>
  /\ eeprom = RomDefault
  /\ PULSES_PER_REV = U32(1) /\ epoch_base_ms = Zero64
  /\ tach_pulses_total = Zero32 /\ last_edge_us = Zero32 /\ last_period_us = Zero32
  /\ micros = Zero32 /\ millis = Zero32 /\ hx_ready_in = 0
  /\ script = <<>> /\ hx_plan = {0}
  /\ edges_left = 0 /\ ticks_left = 0 /\ boots_left = MaxBoots
  /\ line_raw = <<>> /\ line_tx0 = 1
  /\ pre = <<Zero64, DEF_SLOPE, DEF_TARE, RomDefault, U32(1)>>
  /\ boot = Boot0
  /\ tach_pairs = {<<Zero32, Zero32>>}
  /\ wall = Wall0
NextCal ==
  \/ save \/ line_done \/ Damage \/ Reboot
  \/ setup \/ resetCalibrationToDefaultsAndPersist
SpecCal == InitCal /\ [][NextCal]_vars

\* ------------------------------------------------------------------------
\* Progress: every kind of line, then PING
\* ------------------------------------------------------------------------
\* over-long lines with their newline
LongLines == {Junk(LINEBUF_SIZE) \o <<LF>>, Junk(LINEBUF_SIZE + 1) \o <<LF>>}
LiveScripts == {<<l, Cmd1(Str_PING)>> : l \in CommandLines \cup LongLines}

InitLive == InitWith(LiveScripts, {RomDefault, RomErased}, {0, HxNever}, CmdEdges, 0, 0)
NextLive == Main \/ tach_isr \/ HostSend
\* the main context keeps running and the host sends what it has to send
SpecLive == InitLive /\ [][NextLive]_vars /\ WF_vars(Main) /\ WF_vars(HostSend)

\* ------------------------------------------------------------------------
\* SPEED? over snapshots and settings of every size
\* ------------------------------------------------------------------------
\* periods: 0, 1, 3, 101, 150, 1000, 10000, 2^24 + 1, 2^31 + 129, 2^32 - 1
RpmPeriods ==
  {Zero32, U32(1), U32(3), U32(101), U32(150), U32(1000), U32(10000),
   <<1, 256>>, <<129, Limb \div 2>>, Max32}
\* pulses per revolution: 0, 1, 2, 3, 7, 60, 2^24 + 1, 2^32 - 1
RpmPprs == {Zero32, U32(1), U32(2), U32(3), U32(7), U32(60), <<1, 256>>, Max32}

\* handle_line has dispatched SPEED?; cmd_speed is about to take its
\* snapshot of a period and compute_rpm to read a PULSES_PER_REV
InitRpm ==
  /\ pc = "cmd_speed" /\ irq = TRUE /\ attached = TRUE
  /\ loc = [Loc0 EXCEPT !.cmd = Str_SPEEDQ]
  /\ rx = <<>> /\ linebuf = Str_SPEEDQ /\ tx = <<Resp("OK READY", <<>>)>>
  /\ g_per_count = DEF_SLOPE /\ tare_offset = DEF_TARE
  /\ eeprom = RomDefault
  /\ PULSES_PER_REV \in RpmPprs /\ epoch_base_ms = Zero64
  /\ tach_pulses_total = U32(2) /\ last_edge_us = Max32
  /\ last_period_us \in RpmPeriods
  /\ micros = Max32 /\ millis = Zero32 /\ hx_ready_in = 0
  /\ script = <<>> /\ hx_plan = {0}
  /\ edges_left = 0 /\ ticks_left = 0 /\ boots_left = 0
  /\ line_raw = Str_SPEEDQ /\ line_tx0 = 1
  /\ pre = <<Zero64, DEF_SLOPE, DEF_TARE, RomDefault, PULSES_PER_REV>>
  /\ boot = Boot0
  /\ tach_pairs = {<<tach_pulses_total, last_period_us>>}
  /\ wall = Wall0
NextRpm == cmd_speed \/ now_unix_ms \/ line_done
SpecRpm == InitRpm /\ [][NextRpm]_vars

\* ------------------------------------------------------------------------
\* Pulses per revolution under SETPPR
\* ------------------------------------------------------------------------
\* SETPPR with plain values, zero, no digits, a sign, trailing letters and
\* values at and past ULONG_MAX, alone, after SETPPR 2, and before a query
PprArgs ==
  { <<"2">>, <<"6", "0">>, <<"0">>, <<"0", "0">>, <<"a", "b", "c">>,
    <<"-", "1">>, <<"-", "0">>, <<"2", "a", "b", "c">>,
    <<"4", "2", "9", "4", "9", "6", "7", "2", "9", "5">>,
    <<"4", "2", "9", "4", "9", "6", "7", "2", "9", "6">> }
PprScripts ==
  {<<Cmd2(Str_SETPPR, a), q>> : a \in PprArgs, q \in {Cmd1(Str_PPRQ), Cmd1(Str_SPEEDQ)}}
    \cup {<<Cmd2(Str_SETPPR, <<"2">>), Cmd2(Str_SETPPR, a), Cmd1(Str_PPRQ)>>
            : a \in {<<"0">>, <<"a", "b", "c">>, <<"6", "0">>}}
    \cup {<<Cmd2(Str_SETPPR, <<"2">>), l, Cmd1(Str_PPRQ)>>
            : l \in {Cmd1(Str_SETPPR), Cmd1(Str_RESETCAL), Cmd1(Str_TARE)}}

InitPpr ==
  InitWith({<<l>> : l \in CommandLines} \cup PprScripts, {RomDefault, RomErased},
           {0, HxTooLate}, CmdEdges, 0, MaxBoots)
SpecPpr == InitPpr /\ [][Next]_vars

\* ------------------------------------------------------------------------
\* Properties
\* ------------------------------------------------------------------------
Err(code) == Resp(code, <<>>)
ErrCodes == {"ERR 10", "ERR 11", "ERR 20", "ERR 30", "ERR 31", "ERR 32", "ERR 33"}

\* the responses written since the current line began
LineResponses == SubSeq(tx, line_tx0 + 1, Len(tx))
\* the current line is longer than the buffer can hold
TooLong == Len(line_raw) > LINEBUF_SIZE - 1
\* a line with a byte other than a blank
NonBlank(l) == \E i \in 1..Len(l) : l[i] \notin {SP, TAB}
\* the number of blank-separated words of an argument string
CountTokens(a) ==
  Cardinality({i \in 1..Len(a) :
                 a[i] \notin {SP, TAB} /\ (i = 1 \/ a[i - 1] \in {SP, TAB})})
\* a word that reads as a decimal number, with an optional sign
IsNumber(w) ==
  LET u == IF w # <<>> /\ Head(w) \in {"+", "-"} THEN Tail(w) ELSE w
  IN  u # <<>> /\ NumPrefix(u) = u

\* C1: once a run of OverflowRun (200) bytes without a newline has been
\* consumed, ERR 11 has been written, and PING followed by a newline sent
\* right after it is answered OK PONG: the responses since the run began
\* are ERR 11 and then OK PONG.
C1_OverflowRecovery ==
  (pc = "line_done" /\ line_raw = Junk(OverflowRun) \o Str_PING)
    => LineResponses = <<Err("ERR 11"), Resp("OK PONG", <<>>)>>

\* C2: while the line in progress is longer than 127 bytes, handle_line is
\* not given any of its bytes, no command handler runs, and the settings
\* are what they were.
C2_NoPartialDispatch ==
  TooLong =>
    /\ pc \in {"loop", "handle_line", "line_done"}
    /\ pc = "handle_line" => linebuf = <<>>
    /\ pc = "line_done" => Settings = pre

\* C3: when a line longer than 127 bytes has ended, the responses written
\* for it are exactly one ERR 11.
C3_OneErrorPerLongLine ==
  (pc = "line_done" /\ TooLong) => LineResponses = <<Err("ERR 11")>>

\* C4: when a line of at most 127 bytes has been handled and the next byte
\* has not been read yet, exactly one response has been written for it if
\* it holds a non-blank byte, and none, with the settings unchanged, if it
\* is empty or blank.
C4_OneResponsePerLine ==
  (pc = "line_done" /\ ~TooLong) =>
    IF NonBlank(line_raw)
    THEN Len(LineResponses) = 1
    ELSE LineResponses = <<>> /\ Settings = pre

\* C4 for the lines without a NUL byte
C4_OneResponsePerTextLine ==
  (pc = "line_done" /\ ~TooLong /\ \A i \in 1..Len(line_raw) : line_raw[i] # NUL) =>
    IF NonBlank(line_raw)
    THEN Len(LineResponses) = 1
    ELSE LineResponses = <<>> /\ Settings = pre

\* C5: when tach_snapshot has read both fields, they are the values
\* tach_pulses_total and last_period_us hold at that instant, and every
\* OK SPEED response carries a (pulses, period) pair that the two fields
\* held together between two executions of tach_isr.
C5_SnapshotConsistent ==
  /\ pc = "snap_sei" =>
       /\ loc.pulses = tach_pulses_total
       /\ loc.period = last_period_us
  /\ \A i \in 1..Len(tx) :
       tx[i].code = "OK SPEED" => <<tx[i].vals[3], tx[i].vals[2]>> \in tach_pairs

\* a SPEED? answered after two edges 150 us apart
C5_Witness ==
  \E i \in 1..Len(tx) :
    /\ tx[i].code = "OK SPEED"
    /\ tx[i].vals[3] = U32(2)
    /\ tx[i].vals[2] = U32(150)

\* the positions at which the main context waits on the HX711, reads or
\* writes the EEPROM, or reads or writes Serial
AcquirePcs == {"hx_t0", "hx_poll", "hx_delay"}
StoragePcs == {"setup", "save"}
TransportPcs ==
  {"loop", "setup_hw", "cmd_ping", "cmd_info", "cmd_unknown", "load_chk",
   "load_print", "tare_chk", "tare_print", "speed_print", "cmd_settime",
   "settime_print", "cmd_setcal", "setcal_print", "calq_print",
   "resetcal_print", "cmd_setppr", "setppr_print", "pprq_print"}

\* C6: while interrupts are disabled the main context is not at a blocking
\* call (acquisition, storage, Serial), and interrupts are enabled whenever
\* control is back in loop() or in handle_line.
C6_CriticalSections ==
  /\ ~irq => pc \notin AcquirePcs \cup StoragePcs \cup TransportPcs
  /\ pc \in {"loop", "handle_line", "line_done"} => irq

\* TARE inside its critical section, after a successful acquisition
C6_Witness == ~irq /\ pc = "tare_set" /\ loc.ok

\* an execution of tach_isr that follows an earlier edge
SecondEdge ==
  tach_pulses_total' # tach_pulses_total /\ ~IsZero(tach_pulses_total)

\* C7 as stated: for consecutive edges at t1 then t2, last_period_us becomes
\* dt = t2 - t1 (mod 2^32) when dt > 100 and keeps its value otherwise,
\* for every t1.
C7_Debounce ==
  [][SecondEdge =>
       LET dt == Sub(last_edge_us', last_edge_us)
       IN  IF Gt(dt, U32(GLITCH_US))
           THEN last_period_us' = dt
           ELSE last_period_us' = last_period_us]_vars

\* C7 amended: the same for every t1 other than 0; after an edge captured
\* at t1 = 0 the next edge leaves last_period_us unchanged whatever dt is.
C7_DebounceNonzero ==
  [][SecondEdge =>
       LET dt == Sub(last_edge_us', last_edge_us)
       IN  IF ~IsZero(last_edge_us) /\ Gt(dt, U32(GLITCH_US))
           THEN last_period_us' = dt
           ELSE last_period_us' = last_period_us]_vars

\* an edge 150 us after the previous one has set the period, and an edge
\* 50 us after that has left it
C7_Witness ==
  /\ tach_pulses_total = U32(3)
  /\ last_period_us = U32(150)
  /\ last_edge_us = U32(250)

\* C8: after a startup that found no valid record, the live calibration is
\* the defaults, CAL? reports them and the EEPROM holds the defaults'
\* record; the next startup, with no save in between, takes the success
\* path of load and loads the defaults.
C8_ColdBoot ==
  /\ (attached /\ boot.cold /\ boot.writes = 0 /\ pc = "loop") =>
       /\ g_per_count = DEF_SLOPE /\ tare_offset = DEF_TARE
       /\ eeprom = RomDefault
  /\ (attached /\ boot.cold /\ boot.writes = 0 /\ pc = "line_done"
        /\ streqi(loc.cmd, Str_CALQ)) =>
       LineResponses = <<Resp("OK CAL", <<DEF_SLOPE, DEF_TARE>>)>>
  /\ (boot.n > 1 /\ boot.prev_cold /\ boot.prev_writes = 0 /\ pc # "setup") =>
       /\ ~boot.cold
       /\ pc = "setup_cli" => loc.ok /\ loc.slope = DEF_SLOPE /\ loc.tare = DEF_TARE
       /\ (attached /\ boot.writes = 0 /\ pc = "loop") =>
            g_per_count = DEF_SLOPE /\ tare_offset = DEF_TARE

\* the second startup is over, after a first one that found no valid
\* record and no save since
C8_Witness ==
  /\ boot.n = 2 /\ boot.prev_cold /\ boot.prev_writes = 0
  /\ attached /\ pc = "loop" /\ eeprom = RomDefault

\* the command in progress has an argument that is there but is no number
InvalidNumericArg ==
  LET a == strtok(loc.args, {SP, TAB})
      b == strtok(a.rest, {SP, TAB})
  IN  \/ streqi(loc.cmd, Str_SETTIME) /\ a.found /\ ~IsNumber(a.tok)
      \/ streqi(loc.cmd, Str_SETPPR) /\ a.found /\ ~IsNumber(a.tok)
      \/ /\ streqi(loc.cmd, Str_SETCAL) /\ a.found /\ b.found
         /\ (~IsNumber(a.tok) \/ ~IsNumber(b.tok))

\* C9: when SETTIME, SETCAL or SETPPR was given an argument that is no
\* number, the response is an error and epoch base, slope, tare, the
\* record and ppr are what they were.
C9_InvalidArgRejected ==
  (pc = "line_done" /\ InvalidNumericArg) =>
    /\ Len(LineResponses) = 1
    /\ LineResponses[1].code \in ErrCodes
    /\ Settings = pre

\* C10: SETTIME without an argument answers ERR 30, SETCAL with fewer than
\* two ERR 31 and SETPPR without one ERR 32, and the handler returns with
\* epoch base, slope, tare, the record, ppr and the tach fields unchanged.
C10_MissingArgs ==
  [][/\ (pc = "cmd_settime" /\ pc' # pc /\ CountTokens(loc.args) = 0) =>
          /\ tx' = Append(tx, Err("ERR 30")) /\ pc' = "line_done"
          /\ UNCHANGED <<cfgV, calV, tachV>>
     /\ (pc = "cmd_setcal" /\ pc' # pc /\ CountTokens(loc.args) < 2) =>
          /\ tx' = Append(tx, Err("ERR 31")) /\ pc' = "line_done"
          /\ UNCHANGED <<cfgV, calV, tachV>>
     /\ (pc = "cmd_setppr" /\ pc' # pc /\ CountTokens(loc.args) = 0) =>
          /\ tx' = Append(tx, Err("ERR 32")) /\ pc' = "line_done"
          /\ UNCHANGED <<cfgV, calV, tachV>>]_vars

\* SETCAL with one argument has been answered ERR 31
C10_Witness ==
  /\ pc = "line_done" /\ streqi(loc.cmd, Str_SETCAL)
  /\ CountTokens(loc.args) = 1
  /\ LineResponses = <<Err("ERR 31")>>
  /\ Settings = pre

\* C11: when hx_read_blocking has timed out in LOAD? or TARE, the handler's
\* next step writes ERR 20 and returns, with slope, tare and the record
\* untouched; the line then has ERR 20 as its only response and the
\* settings it began with. The acquisition is started only at the start of
\* LOAD? or TARE, never again after it has returned, and TARE changes tare
\* or the record only after a successful acquisition.
C11_AcquisitionTimeout ==
  [][/\ (pc \in {"load_chk", "tare_chk"} /\ ~loc.ok /\ pc' # pc) =>
          /\ tx' = Append(tx, Err("ERR 20")) /\ pc' = "line_done"
          /\ UNCHANGED calV
     /\ (pc' = "line_done" /\ pc \in {"load_chk", "tare_chk"}) =>
          /\ SubSeq(tx', line_tx0 + 1, Len(tx')) = <<Err("ERR 20")>>
          /\ Settings' = pre
     /\ (pc' = "hx_t0" /\ pc # "hx_t0") => pc \in {"cmd_load", "cmd_tare"}
     /\ (streqi(loc.cmd, Str_TARE) /\ calV' # calV) =>
          /\ loc.ok
          /\ g_per_count' = g_per_count]_vars

\* TARE has been answered ERR 20 after the HX711 stayed not ready for
\* longer than the timeout
C11_Witness ==
  /\ pc = "line_done" /\ streqi(loc.cmd, Str_TARE) /\ ~loc.ok
  /\ Gt(Sub(millis, loc.t0), U32(HX711_READ_TIMEOUT_MS))
  /\ LineResponses = <<Err("ERR 20")>>
  /\ Settings = pre

\* the ms elapsed since the last SETTIME was executed
SinceSettime == Sub(wall.up, wall.at)
\* millis() has not wrapped around since the last SETTIME
NoWrapSinceSettime == SubSeq(wall.up, 3, 4) = SubSeq(wall.at, 3, 4)

\* C12: when LOAD? or SPEED? is about to write its response after a
\* SETTIME v, its ts is v plus the ms elapsed since that SETTIME was
\* executed, whatever v, the clock's reading at SETTIME and the time elapsed.
C12_Timestamp ==
  (pc \in {"load_print", "speed_print"} /\ wall.set) =>
    loc.ts = Add(wall.v, SinceSettime)

\* C12 while millis() has not wrapped around since the SETTIME
C12_TimestampNoWrap ==
  (pc \in {"load_print", "speed_print"} /\ wall.set /\ NoWrapSinceSettime) =>
    loc.ts = Add(wall.v, SinceSettime)

\* SETTIME 1000000, then 250 ms, then a query reporting 1000250
C12_Witness ==
  /\ pc \in {"load_print", "speed_print"} /\ wall.set
  /\ wall.v = U64(1000000) /\ SinceSettime = U64(250)
  /\ loc.ts = U64(1000250)

\* C13: loadCalibrationFromEEPROM called at the startup that follows a
\* save of (slope, tare), with the record not written or damaged in
\* between, reports success and returns that slope and that tare.
C13_SaveLoadRoundTrip ==
  [][(pc = "setup" /\ pc' # pc /\ boot.saved # <<>> /\ ~boot.damaged) =>
       /\ pc' = "setup_cli" /\ loc'.ok
       /\ <<loc'.slope, loc'.tare>> = boot.saved]_vars

\* the pair (-1.5f, -5) has been saved and loaded again at the next startup
C13_Witness ==
  /\ boot.n = 2 /\ ~boot.damaged /\ pc = "setup_cli" /\ loc.ok
  /\ boot.saved = <<<<0, 49088>>, Neg(U32(5))>>
  /\ <<loc.slope, loc.tare>> = boot.saved

\* the record in the EEPROM has the magic, the version and the CRC of its
\* first 16 bytes
ValidRecord ==
  /\ RecMagic(eeprom) = CAL_MAGIC
  /\ RecVersion(eeprom) = CAL_VERSION
  /\ RecCrc(eeprom) = crc32_span(RecBody(eeprom))

\* C14: loadCalibrationFromEEPROM called on a saved record of which one
\* byte has been changed reports invalid (setup goes on to the defaults)
\* and leaves its slope and tare outputs and the live calibration as they
\* were; load reports valid only for a record whose magic, version and
\* recomputed CRC match.
C14_CorruptionDetected ==
  [][/\ (pc = "setup" /\ pc' # pc /\ boot.damaged) =>
          /\ pc' = "reset_cli" /\ ~loc'.ok
          /\ <<loc'.slope, loc'.tare>> = <<loc.slope, loc.tare>>
          /\ UNCHANGED calV
     /\ (pc = "setup" /\ pc' = "setup_cli") => ValidRecord]_vars

\* a startup has found the saved record damaged in its tare field
C14_Witness ==
  /\ pc = "reset_cli" /\ boot.damaged /\ boot.cold /\ ~loc.ok
  /\ RecTare(eeprom) # boot.saved[2]
  /\ RecSlope(eeprom) = boot.saved[1]

\* C15: whatever the main context is doing, it gets back to reading the
\* next byte in loop(); the wait in hx_read_blocking ends with the raw count
\* or the timeout; and after every kind of line (unknown, over-long, missing
\* or invalid argument, acquisition timeout) the PING that follows is
\* answered OK PONG and the device is idle again.
C15_NoFatalError ==
  /\ (pc # "loop") ~> (pc = "loop")
  /\ (pc \in AcquirePcs) ~> (pc \in {"load_chk", "tare_chk"})
  /\ <>[](/\ pc = "loop" /\ rx = <<>> /\ script = <<>>
          /\ tx[Len(tx)] = Resp("OK PONG", <<>>))

\* the PING after a LOAD? that timed out has been answered
C15_Witness ==
  /\ pc = "loop" /\ rx = <<>> /\ script = <<>> /\ Len(tx) = 3
  /\ tx[2] = Err("ERR 20")
  /\ tx[3] = Resp("OK PONG", <<>>)

\* a * k + c at the width of a, for k < 2^15
RECURSIVE MulSmall(_, _, _)
MulSmall(a, k, c) ==
  IF a = <<>> THEN <<>>
  ELSE CHOOSE r \in {<<x % Limb>> \o MulSmall(Tail(a), k, x \div Limb)
                       : x \in {Head(a) * k + c}} : TRUE

\* a * b of two 32-bit numbers, as 5 limbs, b taken byte by byte
WideMul(a, b) ==
  LET a5 == a \o <<0, 0, 0>>
      by == WordBytes(b)
      h3 == MulSmall(a5, by[4], 0)
      h2 == Add(MulSmall(h3, 256, 0), MulSmall(a5, by[3], 0))
      h1 == Add(MulSmall(h2, 256, 0), MulSmall(a5, by[2], 0))
  IN  Add(MulSmall(h1, 256, 0), MulSmall(a5, by[1], 0))

\* the bits of a quotient with remainder r by d (5 limbs each), q being
\* the bits so far, until q has 27 bits; then a sticky bit for the rest
\* (16 bits at once while they are all 0)
RECURSIVE QuotBits(_, _, _, _)
QuotBits(q, r, d, steps) ==
  IF q >= 2^26 THEN [n |-> 2 * q + (IF IsZero(r) THEN 0 ELSE 1), e |-> 0 - steps - 1]
  ELSE IF q = 0 /\ r[5] = 0 /\ Gt(d, <<0>> \o SubSeq(r, 1, 4))
  THEN QuotBits(0, <<0>> \o SubSeq(r, 1, 4), d, steps + 16)
  ELSE LET r2 == Add(r, r)
       IN  IF Gt(d, r2) THEN QuotBits(2 * q, r2, d, steps + 1)
           ELSE QuotBits(2 * q + 1, Sub(r2, d), d, steps + 1)

\* 60000000 / (period * ppr), period and ppr nonzero, rounded once to
\* single precision, as a bit pattern
ExactRpm(period, ppr) ==
  LET d     == WideMul(period, ppr)
      small == d[3] = 0 /\ d[4] = 0 /\ d[5] = 0 /\ d[2] < Limb \div 2
      di    == d[2] * Limb + d[1]
      q0    == IF small THEN 60000000 \div di ELSE 0
      r0    == IF small THEN 60000000 % di ELSE 60000000
      x     == QuotBits(q0, <<r0 % Limb, r0 \div Limb, 0, 0, 0>>, d, 0)
  IN  FBits(FRound(x.n, x.e))

\* the number of floats from one bit pattern to the other
UlpDist(x, y) ==
  IF x[2] - y[2] > 1 \/ y[2] - x[2] > 1 THEN Limb
  ELSE LET d == (x[2] - y[2]) * Limb + x[1] - y[1]
       IN  IF d < 0 THEN 0 - d ELSE d

\* C16 as stated: the rpm SPEED? is about to report is 0 when the period of
\* its snapshot is 0 and when PULSES_PER_REV is 0, and otherwise is
\* 60000000 / (period * ppr), rounded to the float that carries it; period
\* 10000 with ppr 2 gives 3000.
C16_Rpm ==
  pc = "speed_print" =>
    IF IsZero(loc.period) \/ IsZero(PULSES_PER_REV)
    THEN loc.rpm = Zero32
    ELSE /\ loc.rpm = ExactRpm(loc.period, PULSES_PER_REV)
         /\ (loc.period = U32(10000) /\ PULSES_PER_REV = U32(2)) =>
              loc.rpm = <<32768, 17723>>

\* C16 amended: the same, with the rpm within 3 floats of that quotient
\* (each of the float operations of compute_rpm rounds its result).
C16_RpmRounded ==
  pc = "speed_print" =>
    IF IsZero(loc.period) \/ IsZero(PULSES_PER_REV)
    THEN loc.rpm = Zero32
    ELSE /\ UlpDist(loc.rpm, ExactRpm(loc.period, PULSES_PER_REV)) <= 3
         /\ (loc.period = U32(10000) /\ PULSES_PER_REV = U32(2)) =>
              loc.rpm = <<32768, 17723>>

\* SPEED? about to report 3000.0f for the period 10000 at 2 pulses per
\* revolution
C16_Witness ==
  /\ pc = "speed_print" /\ loc.period = U32(10000) /\ PULSES_PER_REV = U32(2)
  /\ loc.rpm = <<32768, 17723>>

\* C17: once startup is over, a step changes the live slope, the live tare
\* or the EEPROM record only while TARE is in progress after a successful
\* acquisition (and then leaves the slope), while SETCAL with two arguments
\* is in progress or while RESETCAL is in progress, and never while the
\* line in progress is longer than the buffer; no execution of tach_isr
\* changes any of the three.
C17_CalibrationFrame ==
  [][/\ (attached /\ attached' /\ calV' # calV) =>
          /\ ~TooLong
          /\ \/ streqi(loc.cmd, Str_TARE) /\ loc.ok /\ g_per_count' = g_per_count
             \/ streqi(loc.cmd, Str_SETCAL) /\ CountTokens(loc.args) >= 2
             \/ streqi(loc.cmd, Str_RESETCAL)
     /\ (tach_pulses_total' = Add(tach_pulses_total, U32(1))) => UNCHANGED calV]_vars

\* C17 without the part on over-long lines
C17_FrameOfCommands ==
  [][/\ (attached /\ attached' /\ calV' # calV) =>
          \/ streqi(loc.cmd, Str_TARE) /\ loc.ok /\ g_per_count' = g_per_count
          \/ streqi(loc.cmd, Str_SETCAL) /\ CountTokens(loc.args) >= 2
          \/ streqi(loc.cmd, Str_RESETCAL)
     /\ (tach_pulses_total' = Add(tach_pulses_total, U32(1))) => UNCHANGED calV]_vars

\* C18: whenever the device is in loop() after startup with no line begun,
\* the EEPROM record has its magic, version and CRC and carries the live
\* slope and the live tare; and when a power cycle has been followed by a
\* startup, with no save since, the live calibration is the one that was
\* live at the power cycle.
C18_LiveEqualsPersisted ==
  /\ (attached /\ pc = "loop" /\ linebuf = <<>>) =>
       /\ RecSlope(eeprom) = g_per_count
       /\ RecTare(eeprom) = tare_offset
       /\ ValidRecord
  /\ (attached /\ pc = "loop" /\ linebuf = <<>> /\ boot.n > 1 /\ boot.writes = 0) =>
       /\ ~boot.cold
       /\ <<g_per_count, tare_offset>> = boot.live

\* SETCAL 0.5 -5, a power cycle, and the startup after it is over
C18_Witness ==
  /\ attached /\ pc = "loop" /\ boot.n = 2 /\ boot.writes = 0
  /\ boot.live = <<<<0, 16128>>, Neg(U32(5))>>
  /\ <<g_per_count, tare_offset>> = boot.live
  /\ <<RecSlope(eeprom), RecTare(eeprom)>> = boot.live

\* the position in tx of the OK SPEED responses
SpeedResponses == {i \in 1..Len(tx) : tx[i].code = "OK SPEED"}

\* C19: last_period_us is always 0 or above the glitch threshold of 100,
\* and no step takes it from a nonzero value to 0; so the periods SPEED?
\* reports are 0 or above 100, and after a SPEED? that reported a nonzero
\* period every later SPEED? reports a nonzero one.
C19_PeriodRange ==
  /\ [](/\ IsZero(last_period_us) \/ Gt(last_period_us, U32(GLITCH_US))
        /\ \A i \in SpeedResponses :
             /\ IsZero(tx[i].vals[2]) \/ Gt(tx[i].vals[2], U32(GLITCH_US))
             /\ \A j \in SpeedResponses :
                  (i < j /\ ~IsZero(tx[i].vals[2])) => ~IsZero(tx[j].vals[2]))
  /\ [][~IsZero(last_period_us) => ~IsZero(last_period_us')]_vars

\* two SPEED? with no edge between them have both reported the period 150,
\* accepted before an edge that came 50 us after it
C19_Witness ==
  /\ Len(tx) = 3 /\ SpeedResponses = {2, 3}
  /\ tx[2].vals[2] = U32(150) /\ tx[3].vals[2] = U32(150)
  /\ tx[2].vals[3] = U32(3) /\ tx[3].vals[3] = U32(3)

\* the argument of the SETPPR line being handled
PprArg == strtok(loc.args, {SP, TAB})
\* the digits of w read as a decimal number, low 16 bits and the rest
RECURSIVE DecValue(_)
DecValue(w) ==
  IF w = <<>> THEN <<0, 0>>
  ELSE LET p == DecValue(SubSeq(w, 1, Len(w) - 1))
           n == p[1] * 10 + DigitVal(w[Len(w)])
       IN  <<n % Limb, p[2] * 10 + n \div Limb>>
\* w is digits only
PlainDigits(w) == w # <<>> /\ \A i \in 1..Len(w) : IsDigit(w[i])
\* w is zero (with or without a sign) or does not begin with a number
ZeroOrNonNumeric(w) ==
  LET u == IF w # <<>> /\ Head(w) \in {"+", "-"} THEN Tail(w) ELSE w
  IN  \/ u = <<>> \/ ~IsDigit(Head(u))
      \/ PlainDigits(u) /\ DecValue(u) = <<0, 0>>
\* w is a nonzero decimal number that fits 32 bits
PlainNonzero(w) ==
  PlainDigits(w) /\ DecValue(w) # <<0, 0>> /\ DecValue(w)[2] < Limb

====
